---- MODULE Spec2Model ----
(***************************************************************************)
(* Signal-control simulation engine of traffic_lights_optimization:        *)
(* lanes, phases and intersections (src/simulation/entities.py), the       *)
(* demand simulator and the single-intersection loop                       *)
(* (src/simulation/simulator.py), the demand-responsive policy             *)
(* (src/control/policy.py), the corridor coordinator and the network loop  *)
(* (src/simulation/network.py) and the frame export                        *)
(* (src/simulation/omniverse.py).                                          *)
(*                                                                         *)
(* Python objects are records; a method that mutates its receiver is an    *)
(* operator returning the receiver after the call (and the value returned, *)
(* when there is one).  Lists are sequences, so the 0-based                *)
(* current_phase_index i names phases[i + 1].                              *)
(***************************************************************************)
EXTENDS Integers, Sequences, FiniteSets, TLC

VARIABLES
    intersections,   \* layout id -> IntersectionState (one entry for run_simulation)
    controller,      \* the DemandResponsiveController handed to run_simulation / decide
    observations,    \* layout id -> DetectorObservation captured this tick
    decisions,       \* layout id -> ActuationDecision.switch_phase emitted this tick
    network,         \* TrafficNetwork: time, offsets, history
    coordinator,     \* CoordinatedSignalManager: corridor_lanes, cycle_length, green_band, local_controllers
    sync,            \* locals of the last sync_and_decide call; in a whole run, the run's bookkeeping
    pc,              \* position in the running function
    steps_left,      \* iterations of `for _ in range(steps)` still to run
    ret,             \* the last entity operation's call and the value it returned
    err,             \* exception raised by the last call ("None" when it returned)
    trail,           \* current-phase indices seen over the latest switch_phase calls
    ped_seen         \* some lane has held a pedestrian since the intersections were built

vars == << intersections, controller, observations, decisions, network,
           coordinator, sync, pc, steps_left, ret, err, trail, ped_seen >>

----------------------------------------------------------------------------
(* Bounds of the model *)

MaxQueue == 3        \* cap on a lane's queue where operations are called in any order
MaxPed == 1          \* cap on a lane's pedestrian count where operations are called in any order
MaxArrival == 2      \* largest number of vehicles one arrival draw adds
MaxGreen == 3        \* largest min_green / max_green of a phase
MaxObserved == 1     \* largest per-lane count of an observation handed to decide directly
MaxThreshold == 2    \* largest vehicle_threshold tried besides the default
MaxSteps == 5        \* steps handed to run_simulation
SimMaxGreen == 2     \* largest min_green / max_green of a simulated layout
ArrivalBurst == 3    \* the non-zero number of vehicles an arrival draw of a run adds
MaxTime == 3         \* largest network.time at which sync_and_decide is called directly
MaxOffset == 1       \* largest clock offset of an intersection
CycleLength == 3     \* cycle_length of the coordinator under test
MaxCapacity == 2     \* largest capacity handed to clear_with_capacity / apply_discharge directly
MaxCycle == 4        \* largest cycle_length whose green band is walked through
MaxBandOffset == 5   \* largest clock offset, either sign, in the walk through the green band
MaxBandTime == 9     \* network times 0 .. MaxBandTime - 1 are walked through
MaxNetSteps == 4     \* steps handed to run_network_simulation

(* Program constants *)

saturation_flow_default == 5
vehicle_threshold_default == 12
cycle_length_default == 90
green_band_default == 30
min_green_floor == 5

----------------------------------------------------------------------------
(* Helpers *)

Min(a, b) == IF a <= b THEN a ELSE b
Max(a, b) == IF a >= b THEN a ELSE b

Range(s) == { s[i] : i \in 1..Len(s) }

RECURSIVE SumOver(_, _)
\* sum(f[x] for x in seq)
SumOver(f, seq) ==
    IF seq = << >> THEN 0 ELSE f[Head(seq)] + SumOver(f, Tail(seq))

RECURSIVE SumSet(_, _)
SumSet(f, S) ==
    IF S = {} THEN 0
    ELSE LET x == CHOOSE y \in S : TRUE IN f[x] + SumSet(f, S \ {x})

\* a call that returned None
NoneRet(op) == [op |-> op]
\* lane.add_vehicle(count) on a lane whose queue was before
AddRet(lane, count, before) ==
    [op |-> "add_vehicle", lane |-> lane, count |-> count, before |-> before]
\* lane.clear_with_capacity(capacity) on a lane whose queue was before returned value
ClearRet(lane, capacity, before, value) ==
    [op |-> "clear_with_capacity", lane |-> lane, capacity |-> capacity,
     before |-> before, value |-> value]
\* intersection.switch_phase() left the phase from (as it was before the call)
SwitchRet(from) == [op |-> "switch_phase", from |-> from]
\* intersection.set_phase(name) on the intersection that was before
SetPhaseRet(name, before) == [op |-> "set_phase", name |-> name, before |-> before]
\* apply_discharge(intersection, saturation_flow) returned the dict value
DischargeRet(saturation_flow, value) ==
    [op |-> "apply_discharge", saturation_flow |-> saturation_flow, value |-> value]

----------------------------------------------------------------------------
(* src/utils/config.py: layouts *)

PhaseConfig(name, lanes, min_green, max_green) ==
    [name |-> name, lanes |-> lanes, min_green |-> min_green, max_green |-> max_green]

LayoutConfig(id, phases) == [id |-> id, phases |-> phases]

\* the one-phase intersection of tests/test_policy.py
LayoutOne(id, mn, mx) ==
    LayoutConfig(id, << PhaseConfig("phase_one", <<"A">>, mn, mx) >>)

\* the two-phase intersection of tests/test_network.py, with a second corridor lane
LayoutTwo(id, mn, mx) ==
    LayoutConfig(id, << PhaseConfig("main_corridor", <<"N_S", "S_N">>, mn, mx),
                        PhaseConfig("side_street", <<"E_W">>, mn, mx) >>)

\* the two-phase intersection of tests/test_network.py
LayoutPair(id, mn, mx) ==
    LayoutConfig(id, << PhaseConfig("main_corridor", <<"N_S">>, mn, mx),
                        PhaseConfig("side_street", <<"E_W">>, mn, mx) >>)

\* the same with a third phase that serves both lanes
LayoutThree(id, mn, mx) ==
    LayoutConfig(id, << PhaseConfig("main_corridor", <<"N_S">>, mn, mx),
                        PhaseConfig("side_street", <<"E_W">>, mn, mx),
                        PhaseConfig("all_lanes", <<"N_S", "E_W">>, mn, mx) >>)

----------------------------------------------------------------------------
(* src/simulation/entities.py *)

LaneState(id) == [id |-> id, queue |-> 0, pedestrians |-> 0]

\* the clamp at zero forgotten
add_vehicle_unclamped(lane, count) ==
    [lane EXCEPT !.queue = lane.queue + count]

add_vehicle(lane, count) ==
    [lane EXCEPT !.queue = Max(0, lane.queue + count)]

\* the capacity removed whatever the queue holds
clear_with_capacity_unbounded(lane, capacity) ==
    [lane |-> [lane EXCEPT !.queue = lane.queue - capacity], cleared |-> capacity]

\* returns the lane after the call and the value returned
\* a clearing that empties the lane whatever the capacity
clear_with_capacity_emptying(lane, capacity) ==
    [lane |-> [lane EXCEPT !.queue = 0], cleared |-> Min(lane.queue, capacity)]

clear_with_capacity(lane, capacity) ==
    LET cleared == Min(lane.queue, capacity)
    IN  [lane |-> [lane EXCEPT !.queue = lane.queue - cleared], cleared |-> cleared]

PhaseState(name, lanes, min_green, max_green) ==
    [name |-> name, lanes |-> lanes, min_green |-> min_green,
     max_green |-> max_green, elapsed |-> 0]

reset(phase) == [phase EXCEPT !.elapsed = 0]

PhaseState_tick(phase) == [phase EXCEPT !.elapsed = phase.elapsed + 1]

\* the phase may still be extended when it has just reached its maximum
can_extend_inclusive(phase) == phase.elapsed <= phase.max_green

can_extend(phase) == phase.elapsed < phase.max_green

must_extend(phase) == phase.elapsed < phase.min_green

IntersectionState(layout_id, phases, lanes) ==
    [layout_id |-> layout_id, phases |-> phases, lanes |-> lanes,
     current_phase_index |-> 0, time |-> 0, history |-> << >>]

current_phase(inter) == inter.phases[inter.current_phase_index + 1]

\* the index stops at the last phase instead of wrapping
switch_phase_saturating(inter) ==
    LET idx == Min(inter.current_phase_index + 1, Len(inter.phases) - 1)
    IN  [inter EXCEPT !.current_phase_index = idx,
                      !.phases[idx + 1] = reset(inter.phases[idx + 1])]

\* a switch that leaves the elapsed time of the new current phase as it was
switch_phase_no_reset(inter) ==
    [inter EXCEPT !.current_phase_index = (inter.current_phase_index + 1) % Len(inter.phases)]

switch_phase(inter) ==
    LET idx == (inter.current_phase_index + 1) % Len(inter.phases)
    IN  [inter EXCEPT !.current_phase_index = idx,
                      !.phases[idx + 1] = reset(inter.phases[idx + 1])]

\* a tick that advances the elapsed time of every phase
IntersectionState_tick_all_phases(inter) ==
    [inter EXCEPT !.time = inter.time + 1,
                  !.phases = [k \in DOMAIN inter.phases |-> PhaseState_tick(inter.phases[k])]]

IntersectionState_tick(inter) ==
    [inter EXCEPT !.time = inter.time + 1,
                  !.phases[inter.current_phase_index + 1] =
                      PhaseState_tick(inter.phases[inter.current_phase_index + 1])]

\* a record that keeps the latest snapshot only
record_latest_only(inter) ==
    LET snapshot == [time |-> inter.time,
                     phase |-> current_phase(inter).name,
                     queues |-> [l \in DOMAIN inter.lanes |-> inter.lanes[l].queue],
                     pedestrians |-> [l \in DOMAIN inter.lanes |-> inter.lanes[l].pedestrians]]
    IN  [inter EXCEPT !.history = << snapshot >>]

record(inter) ==
    LET snapshot == [time |-> inter.time,
                     phase |-> current_phase(inter).name,
                     queues |-> [l \in DOMAIN inter.lanes |-> inter.lanes[l].queue],
                     pedestrians |-> [l \in DOMAIN inter.lanes |-> inter.lanes[l].pedestrians]]
    IN  [inter EXCEPT !.history = Append(inter.history, snapshot)]

\* IntersectionState defines no set_phase: the attribute lookup raises
\* AttributeError and the intersection is untouched.
set_phase(inter, name) ==
    [intersection |-> inter, err |-> "AttributeError"]

----------------------------------------------------------------------------
(* src/simulation/simulator.py *)

build_intersection(layout) ==
    LET laneIds == UNION { Range(layout.phases[i].lanes) : i \in 1..Len(layout.phases) }
        lanes == [l \in laneIds |-> LaneState(l)]
        phases == [i \in 1..Len(layout.phases) |->
                      PhaseState(layout.phases[i].name, layout.phases[i].lanes,
                                 layout.phases[i].min_green, layout.phases[i].max_green)]
    IN  IntersectionState(layout.id, phases, lanes)

\* arrivals[l] is the draw max(0, int(random.gauss(...))) made for lane l
simulate_arrivals(lanes, arrivals) ==
    [l \in DOMAIN lanes |-> add_vehicle(lanes[l], Max(0, arrivals[l]))]

\* crossing is the set of lanes whose draw random.random() < crossing_rate succeeded
simulate_pedestrians(lanes, crossing) ==
    [l \in DOMAIN lanes |->
        IF l \in crossing THEN [lanes[l] EXCEPT !.pedestrians = lanes[l].pedestrians + 1]
        ELSE lanes[l]]

DetectorObservation(vehicles, pedestrians) ==
    [vehicles |-> vehicles, pedestrians |-> pedestrians]

capture_observations(inter) ==
    DetectorObservation([l \in DOMAIN inter.lanes |-> inter.lanes[l].queue],
                        [l \in DOMAIN inter.lanes |-> inter.lanes[l].pedestrians])

RECURSIVE DischargeLanes(_, _, _, _)
\* the loop `for lane_id in phase.lanes` of apply_discharge
DischargeLanes(lanes, discharged, laneSeq, saturation_flow) ==
    IF laneSeq = << >> THEN [lanes |-> lanes, discharged |-> discharged]
    ELSE LET lane_id == Head(laneSeq)
             r == clear_with_capacity(lanes[lane_id], saturation_flow)
             d == [l \in DOMAIN discharged \cup {lane_id} |->
                      IF l = lane_id THEN r.cleared ELSE discharged[l]]
         IN  DischargeLanes([lanes EXCEPT ![lane_id] = r.lane], d,
                            Tail(laneSeq), saturation_flow)

\* every lane of the intersection is discharged, whatever phase is current
apply_discharge_all_lanes(inter, saturation_flow) ==
    LET cleared == [l \in DOMAIN inter.lanes |->
                       clear_with_capacity(inter.lanes[l], saturation_flow)]
        lanes == [l \in DOMAIN inter.lanes |->
                     [cleared[l].lane EXCEPT
                         !.pedestrians = Max(0, cleared[l].lane.pedestrians - 1)]]
    IN  [intersection |-> [inter EXCEPT !.lanes = lanes],
         discharged |-> [l \in DOMAIN inter.lanes |-> cleared[l].cleared]]

\* returns the intersection after the call and the dict returned
\* a discharge after which only the lanes of the current phase lose a pedestrian
apply_discharge_served_decay(inter, saturation_flow) ==
    LET phase == current_phase(inter)
        r == DischargeLanes(inter.lanes, << >>, phase.lanes, saturation_flow)
        lanes == [l \in DOMAIN r.lanes |->
                     IF l \in Range(phase.lanes)
                     THEN [r.lanes[l] EXCEPT !.pedestrians = Max(0, r.lanes[l].pedestrians - 1)]
                     ELSE r.lanes[l]]
    IN  [intersection |-> [inter EXCEPT !.lanes = lanes], discharged |-> r.discharged]

apply_discharge(inter, saturation_flow) ==
    LET phase == current_phase(inter)
        r == DischargeLanes(inter.lanes, << >>, phase.lanes, saturation_flow)
        lanes == [l \in DOMAIN r.lanes |->
                     [r.lanes[l] EXCEPT !.pedestrians = Max(0, r.lanes[l].pedestrians - 1)]]
    IN  [intersection |-> [inter EXCEPT !.lanes = lanes], discharged |-> r.discharged]

----------------------------------------------------------------------------
(* src/control/policy.py *)

DemandResponsiveController(vehicle_threshold, pedestrian_priority) ==
    [vehicle_threshold |-> vehicle_threshold, pedestrian_priority |-> pedestrian_priority]

\* pedestrians hold the phase only while it can still be extended
decide_ped_capped(self, intersection, observation) ==
    LET phase == current_phase(intersection)
        total_queue == SumOver(observation.vehicles, phase.lanes)
        pedestrian_pressure == SumOver(observation.pedestrians, phase.lanes)
        switch ==
            IF must_extend(phase) THEN FALSE
            ELSE IF self.pedestrian_priority /\ pedestrian_pressure > 0 /\ can_extend(phase)
                 THEN FALSE
            ELSE IF total_queue < self.vehicle_threshold /\ can_extend(phase) THEN FALSE
            ELSE TRUE
    IN  [switch_phase |-> switch, intersection |-> intersection, observation |-> observation]

\* the queue is totalled over every observed lane, not the current phase's
decide_total_all_lanes(self, intersection, observation) ==
    LET phase == current_phase(intersection)
        total_queue == SumSet(observation.vehicles, DOMAIN observation.vehicles)
        pedestrian_pressure == SumOver(observation.pedestrians, phase.lanes)
        switch ==
            IF must_extend(phase) THEN FALSE
            ELSE IF self.pedestrian_priority /\ pedestrian_pressure > 0 THEN FALSE
            ELSE IF total_queue < self.vehicle_threshold /\ can_extend(phase) THEN FALSE
            ELSE TRUE
    IN  [switch_phase |-> switch, intersection |-> intersection, observation |-> observation]

\* the policy performs the switch itself when it decides to advance
decide_switching(self, intersection, observation) ==
    LET phase == current_phase(intersection)
        total_queue == SumOver(observation.vehicles, phase.lanes)
        pedestrian_pressure == SumOver(observation.pedestrians, phase.lanes)
        switch ==
            IF must_extend(phase) THEN FALSE
            ELSE IF self.pedestrian_priority /\ pedestrian_pressure > 0 THEN FALSE
            ELSE IF total_queue < self.vehicle_threshold /\ can_extend(phase) THEN FALSE
            ELSE TRUE
    IN  [switch_phase |-> switch,
         intersection |-> IF switch THEN switch_phase(intersection) ELSE intersection,
         observation |-> observation]

\* the minimum green is not checked
decide_no_min_green(self, intersection, observation) ==
    LET phase == current_phase(intersection)
        total_queue == SumOver(observation.vehicles, phase.lanes)
        pedestrian_pressure == SumOver(observation.pedestrians, phase.lanes)
        switch ==
            IF self.pedestrian_priority /\ pedestrian_pressure > 0 THEN FALSE
            ELSE IF total_queue < self.vehicle_threshold /\ can_extend(phase) THEN FALSE
            ELSE TRUE
    IN  [switch_phase |-> switch, intersection |-> intersection, observation |-> observation]

\* the threshold must be exceeded, not just reached
decide_threshold_exclusive(self, intersection, observation) ==
    LET phase == current_phase(intersection)
        total_queue == SumOver(observation.vehicles, phase.lanes)
        pedestrian_pressure == SumOver(observation.pedestrians, phase.lanes)
        switch ==
            IF must_extend(phase) THEN FALSE
            ELSE IF self.pedestrian_priority /\ pedestrian_pressure > 0 THEN FALSE
            ELSE IF total_queue <= self.vehicle_threshold /\ can_extend(phase) THEN FALSE
            ELSE TRUE
    IN  [switch_phase |-> switch, intersection |-> intersection, observation |-> observation]

\* a policy that holds on low demand whatever the elapsed time
decide_uncapped(self, intersection, observation) ==
    LET phase == current_phase(intersection)
        total_queue == SumOver(observation.vehicles, phase.lanes)
        pedestrian_pressure == SumOver(observation.pedestrians, phase.lanes)
        switch ==
            IF must_extend(phase) THEN FALSE
            ELSE IF self.pedestrian_priority /\ pedestrian_pressure > 0 THEN FALSE
            ELSE IF total_queue < self.vehicle_threshold THEN FALSE
            ELSE TRUE
    IN  [switch_phase |-> switch, intersection |-> intersection, observation |-> observation]

\* a policy whose pedestrian hold gives way once the queue reaches the threshold
decide_ped_yields_to_demand(self, intersection, observation) ==
    LET phase == current_phase(intersection)
        total_queue == SumOver(observation.vehicles, phase.lanes)
        pedestrian_pressure == SumOver(observation.pedestrians, phase.lanes)
        switch ==
            IF must_extend(phase) THEN FALSE
            ELSE IF /\ self.pedestrian_priority
                    /\ pedestrian_pressure > 0
                    /\ total_queue < self.vehicle_threshold
                 THEN FALSE
            ELSE IF total_queue < self.vehicle_threshold /\ can_extend(phase) THEN FALSE
            ELSE TRUE
    IN  [switch_phase |-> switch, intersection |-> intersection, observation |-> observation]

\* returns the decision, and both arguments as they are after the call
decide(self, intersection, observation) ==
    LET phase == current_phase(intersection)
        total_queue == SumOver(observation.vehicles, phase.lanes)
        pedestrian_pressure == SumOver(observation.pedestrians, phase.lanes)
        switch ==
            IF must_extend(phase) THEN FALSE
            ELSE IF self.pedestrian_priority /\ pedestrian_pressure > 0 THEN FALSE
            ELSE IF total_queue < self.vehicle_threshold /\ can_extend(phase) THEN FALSE
            ELSE TRUE
    IN  [switch_phase |-> switch, intersection |-> intersection, observation |-> observation]

----------------------------------------------------------------------------
(* src/simulation/network.py *)

\* f with f[k] = v, as the dict assignment d[k] = v
Put(f, k, v) == [x \in DOMAIN f \cup {k} |-> IF x = k THEN v ELSE f[x]]

\* order is the insertion order of the intersections dict
TrafficNetwork(order, offsets) ==
    [order |-> order, offsets |-> offsets, time |-> 0, history |-> << >>]

\* returns the intersections dict and the rest of the TrafficNetwork
build_network(layouts, offsets) ==
    LET ids == { layouts[k].id : k \in 1 .. Len(layouts) }
        intersectionOf == [id \in ids |->
            build_intersection(layouts[CHOOSE k \in 1 .. Len(layouts) :
                                          /\ layouts[k].id = id
                                          /\ \A j \in (k + 1) .. Len(layouts) : layouts[j].id # id])]
        offset_map == [id \in ids \cup DOMAIN offsets |->
                          IF id \in DOMAIN offsets THEN offsets[id] ELSE 0]
    IN  [intersections |-> intersectionOf,
         network |-> TrafficNetwork([k \in 1 .. Len(layouts) |-> layouts[k].id], offset_map)]

CoordinatedSignalManager(corridor_lanes, cycle_length, green_band) ==
    [corridor_lanes |-> corridor_lanes, cycle_length |-> cycle_length,
     green_band |-> green_band, local_controllers |-> << >>]

NoPhase == [found |-> FALSE, name |-> ""]
SomePhase(name) == [found |-> TRUE, name |-> name]
\* the truth value Python gives a phase name or None
Truthy(target) == target.found /\ target.name # ""

RECURSIVE FirstCorridorPhase(_, _)
FirstCorridorPhase(phases, corridor_lanes) ==
    IF phases = << >> THEN NoPhase
    ELSE IF \E l \in Range(Head(phases).lanes) : l \in corridor_lanes
         THEN SomePhase(Head(phases).name)
         ELSE FirstCorridorPhase(Tail(phases), corridor_lanes)

corridor_phase(self, intersection) ==
    FirstCorridorPhase(intersection.phases, self.corridor_lanes)

\* the remainder truncates toward zero, so it is negative for a negative
\* offset-adjusted time
within_green_band_truncating(self, network_time, offset) ==
    LET x == network_time + offset
        r == IF x >= 0 THEN x % self.cycle_length
             ELSE 0 - ((0 - x) % self.cycle_length)
    IN  r < self.green_band

within_green_band(self, network_time, offset) ==
    ((network_time + offset) % self.cycle_length) < self.green_band

\* obs.vehicles.get(lane, 0)
VehiclesGet(obs, lane) == IF lane \in DOMAIN obs.vehicles THEN obs.vehicles[lane] ELSE 0

corridor_pressure(self, obsMap) ==
    SumSet([id \in DOMAIN obsMap |->
               SumSet([lane \in self.corridor_lanes |-> VehiclesGet(obsMap[id], lane)],
                      self.corridor_lanes)],
           DOMAIN obsMap)

\* the filter on the corridor lanes forgotten: every observed lane counts
cross_pressure_all_lanes(self, obsMap) ==
    SumSet([id \in DOMAIN obsMap |->
               SumSet(obsMap[id].vehicles, DOMAIN obsMap[id].vehicles)],
           DOMAIN obsMap)

cross_pressure(self, obsMap) ==
    SumSet([id \in DOMAIN obsMap |->
               SumSet(obsMap[id].vehicles, DOMAIN obsMap[id].vehicles \ self.corridor_lanes)],
           DOMAIN obsMap)

\* corridor priority needs strictly more corridor pressure
prioritize_corridor_strict(corridor, cross) == corridor > cross

prioritize_corridor(corridor, cross) == corridor >= cross

\* the body of `for inter_id, intersection in network.intersections.items()`
\* for one intersection; acc holds the intersections, the local controllers,
\* the decisions so far and the exception raised, if any
SyncOne(self, net, obsMap, prioritize, inter_id, acc) ==
    IF inter_id \notin DOMAIN obsMap THEN [acc EXCEPT !.err = "KeyError"]
    ELSE
    LET intersection == acc.intersections[inter_id]
        obs == obsMap[inter_id]
        controllers == IF inter_id \in DOMAIN acc.local_controllers
                       THEN acc.local_controllers
                       ELSE Put(acc.local_controllers, inter_id,
                                DemandResponsiveController(vehicle_threshold_default, TRUE))
        target_phase == corridor_phase(self, intersection)
        offset == IF inter_id \in DOMAIN net.offsets THEN net.offsets[inter_id] ELSE 0
        withControllers == [acc EXCEPT !.local_controllers = controllers]
    IN  IF prioritize /\ Truthy(target_phase) /\ within_green_band(self, net.time, offset)
        THEN IF current_phase(intersection).name # target_phase.name
             THEN LET r == set_phase(intersection, target_phase.name)
                  IN  IF r.err # "None"
                      THEN [withControllers EXCEPT !.intersections[inter_id] = r.intersection,
                                                   !.err = r.err]
                      ELSE [withControllers EXCEPT
                               !.intersections[inter_id] = r.intersection,
                               !.decisions = Put(acc.decisions, inter_id, FALSE)]
             ELSE [withControllers EXCEPT !.decisions = Put(acc.decisions, inter_id, FALSE)]
        ELSE LET d == decide(controllers[inter_id], intersection, obs)
             IN  [withControllers EXCEPT
                     !.intersections[inter_id] = d.intersection,
                     !.decisions = Put(acc.decisions, inter_id, d.switch_phase)]

RECURSIVE SyncLoop(_, _, _, _, _, _)
SyncLoop(self, net, obsMap, prioritize, order, acc) ==
    IF order = << >> \/ acc.err # "None" THEN acc
    ELSE SyncLoop(self, net, obsMap, prioritize, Tail(order),
                  SyncOne(self, net, obsMap, prioritize, Head(order), acc))

\* returns the intersections and the local controllers after the call, the
\* decisions returned (none when the call raised), the exception raised and
\* the values of the call's locals
sync_and_decide(self, net, inters, obsMap) ==
    LET corridor == corridor_pressure(self, obsMap)
        cross == cross_pressure(self, obsMap)
        prioritize == prioritize_corridor(corridor, cross)
        r == SyncLoop(self, net, obsMap, prioritize, net.order,
                      [intersections |-> inters,
                       local_controllers |-> self.local_controllers,
                       decisions |-> << >>, err |-> "None"])
    IN  [intersections |-> r.intersections,
         local_controllers |-> r.local_controllers,
         decisions |-> IF r.err = "None" THEN r.decisions ELSE << >>,
         err |-> r.err,
         corridor_pressure |-> corridor,
         cross_pressure |-> cross,
         prioritize_corridor |-> prioritize]

\* TrafficNetwork.record
network_record(net, inters) ==
    LET snapshot ==
            [time |-> net.time,
             intersections |->
                [id \in DOMAIN inters |->
                    [phase |-> current_phase(inters[id]).name,
                     queues |-> [l \in DOMAIN inters[id].lanes |-> inters[id].lanes[l].queue]]]]
    IN  [net EXCEPT !.history = Append(net.history, snapshot)]

----------------------------------------------------------------------------
(* src/simulation/omniverse.py *)

\* the identifiers of the layouts in use, in the order of Python's str
LayoutIds == << "A", "B" >>

StrRank(id) == CHOOSE k \in 1 .. Len(LayoutIds) : LayoutIds[k] = id

\* the sort key (f["time"], f["intersection"]) of f is below that of g
KeyBelow(f, g) ==
    \/ f.time < g.time
    \/ f.time = g.time /\ StrRank(f.intersection) < StrRank(g.intersection)

RECURSIVE InsertFrame(_, _)
\* f put into the sorted list, after the frames whose key is not above its own
InsertFrame(sorted, f) ==
    IF sorted = << >> THEN << f >>
    ELSE IF KeyBelow(f, Head(sorted)) THEN << f >> \o sorted
         ELSE << Head(sorted) >> \o InsertFrame(Tail(sorted), f)

RECURSIVE SortedFrames(_, _)
\* sorted(frames, key=...), a stable sort
SortedFrames(sorted, frames) ==
    IF frames = << >> THEN sorted
    ELSE SortedFrames(InsertFrame(sorted, Head(frames)), Tail(frames))

FrameOf(inter, sample) ==
    [time |-> sample.time, intersection |-> inter.layout_id, phase |-> sample.phase,
     queues |-> sample.queues, pedestrians |-> sample.pedestrians]

RECURSIVE CollectFrames(_)
\* the two loops of synthesize_frames over a list of intersections
CollectFrames(interSeq) ==
    IF interSeq = << >> THEN << >>
    ELSE [k \in 1 .. Len(Head(interSeq).history) |->
             FrameOf(Head(interSeq), Head(interSeq).history[k])]
         \o CollectFrames(Tail(interSeq))

\* the frames are returned as collected, not sorted
synthesize_frames_unsorted(interSeq) == CollectFrames(interSeq)

synthesize_frames(interSeq) == SortedFrames(<< >>, CollectFrames(interSeq))

----------------------------------------------------------------------------
(* Values of the variables a specification does not use *)

NoObservations == << >>
NoDecisions == << >>
NoNetwork == TrafficNetwork(<< >>, << >>)
NoCoordinator == CoordinatedSignalManager({}, cycle_length_default, green_band_default)
NoSync == [called |-> FALSE]

----------------------------------------------------------------------------
(* SpecEntities: the operations of a lane and of an intersection, called   *)
(* in any order on a freshly built intersection.                           *)

EntityLayouts ==
    { LayoutOne("A", min_green_floor, min_green_floor),
      LayoutPair("A", min_green_floor, min_green_floor),
      LayoutThree("A", min_green_floor, min_green_floor) }

InitEntities ==
    /\ \E layout \in EntityLayouts :
          intersections = [i \in {layout.id} |-> build_intersection(layout)]
    /\ controller = DemandResponsiveController(vehicle_threshold_default, TRUE)
    /\ observations = NoObservations
    /\ decisions = NoDecisions
    /\ network = NoNetwork
    /\ coordinator = NoCoordinator
    /\ sync = NoSync
    /\ pc = "api"
    /\ steps_left = 0
    /\ ret = NoneRet("build_intersection")
    /\ err = "None"
    /\ trail = << 0 >>
    /\ ped_seen = FALSE

\* none of these operations raises
EntityFrame ==
    /\ err' = "None"
    /\ UNCHANGED << controller, observations, decisions, network, coordinator,
                    sync, pc, steps_left >>

AnyPedestrian(inters) ==
    \E i \in DOMAIN inters : \E l \in DOMAIN inters[i].lanes :
        inters[i].lanes[l].pedestrians > 0

QueuesWithin(lanes) == \A l \in DOMAIN lanes : lanes[l].queue <= MaxQueue

AddVehicle(i, l, count) ==
    /\ pc = "api"
    /\ LET lane == add_vehicle(intersections[i].lanes[l], count)
       IN  /\ lane.queue <= MaxQueue
           /\ intersections' = [intersections EXCEPT ![i].lanes[l] = lane]
    /\ ret' = AddRet(l, count, intersections[i].lanes[l].queue)
    /\ UNCHANGED << trail, ped_seen >>
    /\ EntityFrame

ClearWithCapacity(i, l, capacity) ==
    /\ pc = "api"
    /\ LET r == clear_with_capacity(intersections[i].lanes[l], capacity)
       IN  /\ r.lane.queue <= MaxQueue
           /\ intersections' = [intersections EXCEPT ![i].lanes[l] = r.lane]
           /\ ret' = ClearRet(l, capacity, intersections[i].lanes[l].queue, r.cleared)
    /\ UNCHANGED << trail, ped_seen >>
    /\ EntityFrame

SimulateArrivals(i, arrivals) ==
    /\ pc = "api"
    /\ LET lanes == simulate_arrivals(intersections[i].lanes, arrivals)
       IN  /\ QueuesWithin(lanes)
           /\ intersections' = [intersections EXCEPT ![i].lanes = lanes]
    /\ ret' = NoneRet("simulate_arrivals")
    /\ UNCHANGED << trail, ped_seen >>
    /\ EntityFrame

SimulatePedestrians(i, crossing) ==
    /\ pc = "api"
    /\ LET lanes == simulate_pedestrians(intersections[i].lanes, crossing)
       IN  /\ \A l \in DOMAIN lanes : lanes[l].pedestrians <= MaxPed
           /\ intersections' = [intersections EXCEPT ![i].lanes = lanes]
    /\ ret' = NoneRet("simulate_pedestrians")
    /\ ped_seen' = (ped_seen \/ AnyPedestrian(intersections'))
    /\ UNCHANGED trail
    /\ EntityFrame

ApplyDischarge(i, saturation_flow) ==
    /\ pc = "api"
    /\ LET r == apply_discharge(intersections[i], saturation_flow)
       IN  /\ QueuesWithin(r.intersection.lanes)
           /\ intersections' = [intersections EXCEPT ![i] = r.intersection]
           /\ ret' = DischargeRet(saturation_flow, r.discharged)
    /\ UNCHANGED << trail, ped_seen >>
    /\ EntityFrame

\* trail keeps the index before and after each of the latest len(phases) calls
SwitchPhase(i) ==
    /\ pc = "api"
    /\ LET inter == switch_phase(intersections[i])
           seen == Append(trail, inter.current_phase_index)
           keep == Len(inter.phases) + 1
       IN  /\ intersections' = [intersections EXCEPT ![i] = inter]
           /\ trail' = IF Len(seen) > keep THEN SubSeq(seen, Len(seen) - keep + 1, Len(seen))
                       ELSE seen
    /\ ret' = SwitchRet(current_phase(intersections[i]))
    /\ UNCHANGED ped_seen
    /\ EntityFrame

\* intersection.set_phase(name), as network.py:99 calls it
SetPhase(i, name) ==
    /\ pc = "api"
    /\ LET r == set_phase(intersections[i], name)
       IN  /\ intersections' = [intersections EXCEPT ![i] = r.intersection]
           /\ err' = r.err
    /\ ret' = SetPhaseRet(name, intersections[i])
    /\ UNCHANGED << controller, observations, decisions, network, coordinator,
                    sync, pc, steps_left, trail, ped_seen >>

PhaseNames(inter) == { inter.phases[k].name : k \in DOMAIN inter.phases }

CountSet == (0 - MaxQueue) .. MaxArrival
CapacitySet == (0 - 1) .. MaxCapacity
ArrivalSet == 0 .. MaxArrival

NextEntities ==
    \/ \E i \in DOMAIN intersections, count \in CountSet :
          \E l \in DOMAIN intersections[i].lanes : AddVehicle(i, l, count)
    \/ \E i \in DOMAIN intersections, capacity \in CapacitySet :
          \E l \in DOMAIN intersections[i].lanes : ClearWithCapacity(i, l, capacity)
    \/ \E i \in DOMAIN intersections :
          \E arrivals \in [DOMAIN intersections[i].lanes -> ArrivalSet] :
             SimulateArrivals(i, arrivals)
    \/ \E i \in DOMAIN intersections :
          \E crossing \in SUBSET DOMAIN intersections[i].lanes :
             SimulatePedestrians(i, crossing)
    \/ \E i \in DOMAIN intersections, saturation_flow \in CapacitySet \cup {saturation_flow_default} :
          ApplyDischarge(i, saturation_flow)
    \/ \E i \in DOMAIN intersections : SwitchPhase(i)
    \/ \E i \in DOMAIN intersections :
          \E name \in PhaseNames(intersections[i]) \cup {"no_such_phase"} : SetPhase(i, name)

SpecEntities == InitEntities /\ [][NextEntities]_vars

\* C6: for every queue q >= 0 and capacity c >= 0, clear_with_capacity(c)
\* returns min(q, c), leaves the queue at q - min(q, c) and never removes
\* more than c vehicles.
DischargeConservation ==
    (ret.op = "clear_with_capacity" /\ ret.before >= 0 /\ ret.capacity >= 0) =>
        \A i \in DOMAIN intersections :
            LET q == ret.before
                c == ret.capacity
                now == intersections[i].lanes[ret.lane].queue
            IN  /\ ret.value = (IF q <= c THEN q ELSE c)
                /\ now = q - ret.value
                /\ q - now <= c

\* a discharge that was cut by the capacity and left vehicles behind
DischargeConservationWitness ==
    /\ ret.op = "clear_with_capacity"
    /\ ret.capacity >= 1
    /\ ret.before > ret.capacity
    /\ \E i \in DOMAIN intersections : intersections[i].lanes[ret.lane].queue >= 1

\* C7: after any sequence of add_vehicle (negative counts included),
\* clear_with_capacity, simulate_arrivals, simulate_pedestrians and
\* apply_discharge, every lane's queue and pedestrian count are >= 0.
CountsNonNegative ==
    \A i \in DOMAIN intersections : \A l \in DOMAIN intersections[i].lanes :
        /\ intersections[i].lanes[l].queue >= 0
        /\ intersections[i].lanes[l].pedestrians >= 0

\* a negative add_vehicle larger than the queue was clamped at zero
CountsNonNegativeWitness ==
    /\ ret.op = "add_vehicle"
    /\ ret.before >= 1
    /\ ret.before + ret.count < 0
    /\ \E i \in DOMAIN intersections : intersections[i].lanes[ret.lane].queue = 0

\* C8: switch_phase moves the index to (index + 1) mod numPhases; numPhases
\* consecutive calls from any index make every phase current exactly once
\* and return to the starting index; the index stays within [0, numPhases).
CyclicAdvancement ==
    \A i \in DOMAIN intersections :
        LET n == Len(intersections[i].phases)
        IN  /\ intersections[i].current_phase_index \in 0 .. (n - 1)
            /\ trail[Len(trail)] = intersections[i].current_phase_index
            /\ \A k \in 1 .. (Len(trail) - 1) :
                   trail[k + 1] = (IF trail[k] = n - 1 THEN 0 ELSE trail[k] + 1)
            /\ Len(trail) = n + 1 =>
                   /\ trail[n + 1] = trail[1]
                   /\ { trail[k] : k \in 2 .. (n + 1) } = 0 .. (n - 1)
                   /\ \A j, k \in 2 .. (n + 1) : trail[j] = trail[k] => j = k

\* a full cycle of three switches that started on the last phase and wrapped
CyclicAdvancementWitness ==
    \E i \in DOMAIN intersections :
        /\ Len(intersections[i].phases) = 3
        /\ Len(trail) = 4
        /\ trail[1] = 2
        /\ trail[2] = 0
        /\ intersections[i].current_phase_index = 2

\* C14: apply_discharge(intersection, saturation_flow) takes
\* min(queue, saturation_flow) vehicles from every lane served by the
\* current phase and returns that amount under the lane's identifier; the
\* queue of every other lane is unchanged; every lane's pedestrian count
\* becomes max(0, count - 1); the phase index, the elapsed counters, the time
\* and the history are unchanged.
DischargeEffect ==
    [][(pc = "api" /\ ret'.op = "apply_discharge") =>
         \A i \in DOMAIN intersections :
            LET before == intersections[i]
                after == intersections'[i]
                served == Range(current_phase(before).lanes)
                flow == ret'.saturation_flow
            IN  /\ DOMAIN ret'.value = served
                /\ \A l \in served :
                       /\ ret'.value[l] = (IF before.lanes[l].queue <= flow
                                            THEN before.lanes[l].queue ELSE flow)
                       /\ after.lanes[l].queue = before.lanes[l].queue - ret'.value[l]
                /\ \A l \in DOMAIN before.lanes \ served :
                       after.lanes[l].queue = before.lanes[l].queue
                /\ \A l \in DOMAIN before.lanes :
                       after.lanes[l].pedestrians =
                          (IF before.lanes[l].pedestrians >= 1
                           THEN before.lanes[l].pedestrians - 1 ELSE 0)
                /\ DOMAIN after.lanes = DOMAIN before.lanes
                /\ after.current_phase_index = before.current_phase_index
                /\ after.phases = before.phases
                /\ after.time = before.time
                /\ after.history = before.history]_vars

\* a discharge on the second phase that was cut by the saturation flow and
\* left vehicles on the served lane, beside a queue on the lane not served
DischargeEffectWitness ==
    \E i \in DOMAIN intersections :
        LET inter == intersections[i]
        IN  /\ ret.op = "apply_discharge"
            /\ ret.saturation_flow >= 1
            /\ inter.current_phase_index = 1
            /\ \E l \in DOMAIN ret.value :
                   /\ ret.value[l] = ret.saturation_flow
                   /\ inter.lanes[l].queue >= 1
            /\ \E l \in DOMAIN inter.lanes \ DOMAIN ret.value : inter.lanes[l].queue >= 2

\* C15: set_phase(name) makes the phase with that name the current phase and
\* resets that phase's elapsed counter to zero; if no phase has that name it
\* fails with a NotFound error and leaves the phase index and the elapsed
\* counters unchanged.
SetPhaseContract ==
    ret.op = "set_phase" =>
        \A i \in DOMAIN intersections :
            IF ret.name \in PhaseNames(ret.before)
            THEN /\ err = "None"
                 /\ current_phase(intersections[i]).name = ret.name
                 /\ current_phase(intersections[i]).elapsed = 0
            ELSE /\ err = "NotFound"
                 /\ intersections[i].current_phase_index = ret.before.current_phase_index
                 /\ \A k \in DOMAIN ret.before.phases :
                        intersections[i].phases[k].elapsed = ret.before.phases[k].elapsed

\* C16: clear_with_capacity(capacity) with capacity < 0 fails with an
\* InvalidArgument error and leaves the lane's queue unchanged.
NegativeCapacityRejected ==
    (ret.op = "clear_with_capacity" /\ ret.capacity < 0) =>
        /\ err # "None"
        /\ \A i \in DOMAIN intersections :
               intersections[i].lanes[ret.lane].queue = ret.before

----------------------------------------------------------------------------
(* SpecPolicy: DemandResponsiveController.decide called once, as           *)
(* tests/test_policy.py calls it, on an intersection and an observation    *)
(* set up by hand.                                                         *)

ThresholdSet == (0 .. MaxThreshold) \cup {vehicle_threshold_default}

\* the built intersection put on phase index idx with that phase's elapsed
\* counter at elapsed and every lane's queue at queue
Arranged(layout, idx, elapsed, queue) ==
    LET inter == build_intersection(layout)
    IN  [inter EXCEPT !.current_phase_index = idx,
                      !.phases[idx + 1].elapsed = elapsed,
                      !.lanes = [l \in DOMAIN inter.lanes |->
                                    [inter.lanes[l] EXCEPT !.queue = queue]]]

InitPolicy ==
    /\ \E mn \in 1 .. MaxGreen, mx \in 1 .. MaxGreen :
       \E layout \in { LayoutOne("A", mn, mx), LayoutTwo("A", mn, mx) } :
       \E idx \in 0 .. (Len(layout.phases) - 1), elapsed \in 0 .. (MaxGreen + 1),
          queue \in {0, MaxQueue} :
          intersections = [i \in {layout.id} |-> Arranged(layout, idx, elapsed, queue)]
    /\ \E threshold \in ThresholdSet, priority \in BOOLEAN :
          controller = DemandResponsiveController(threshold, priority)
    /\ \E i \in DOMAIN intersections :
       \E vehicles \in [DOMAIN intersections[i].lanes -> 0 .. MaxObserved],
          pedestrians \in [DOMAIN intersections[i].lanes -> 0 .. 1] :
          observations = [j \in {i} |-> DetectorObservation(vehicles, pedestrians)]
    /\ decisions = NoDecisions
    /\ network = NoNetwork
    /\ coordinator = NoCoordinator
    /\ sync = NoSync
    /\ pc = "decide"
    /\ steps_left = 0
    /\ ret = NoneRet("build_intersection")
    /\ err = "None"
    /\ trail = << 0 >>
    /\ ped_seen = FALSE

Decide(i) ==
    /\ pc = "decide"
    /\ LET r == decide(controller, intersections[i], observations[i])
       IN  /\ decisions' = [j \in {i} |-> r.switch_phase]
           /\ intersections' = [intersections EXCEPT ![i] = r.intersection]
           /\ observations' = [observations EXCEPT ![i] = r.observation]
    /\ pc' = "decided"
    /\ UNCHANGED << controller, network, coordinator, sync, steps_left, ret, err,
                    trail, ped_seen >>

NextPolicy == \E i \in DOMAIN intersections : Decide(i)

SpecPolicy == InitPolicy /\ [][NextPolicy]_vars

must_extend_now(inter) == current_phase(inter).elapsed < current_phase(inter).min_green

\* what the observation reports on the lanes the current phase serves
ServedLanes(inter) == Range(current_phase(inter).lanes)
ObservedVehicles(inter, obs) == SumSet(obs.vehicles, ServedLanes(inter))
PedestrianOnServedLane(inter, obs) == \E l \in ServedLanes(inter) : obs.pedestrians[l] > 0

\* C3: with pedestrian_priority enabled, whenever the observation reports a
\* pedestrian on a lane served by the current phase, decide returns hold,
\* for every vehicle queue, threshold and elapsed counter.
PedestrianHold ==
    \A i \in DOMAIN decisions :
        (/\ controller.pedestrian_priority
         /\ PedestrianOnServedLane(intersections[i], observations[i]))
        => decisions[i] = FALSE

\* held for a pedestrian although the phase is past its maximum green and the
\* observed queue has reached the threshold
PedestrianHoldWitness ==
    \E i \in DOMAIN decisions :
        /\ controller.pedestrian_priority
        /\ PedestrianOnServedLane(intersections[i], observations[i])
        /\ current_phase(intersections[i]).elapsed > current_phase(intersections[i]).max_green
        /\ current_phase(intersections[i]).elapsed >= current_phase(intersections[i]).min_green
        /\ ObservedVehicles(intersections[i], observations[i]) >= controller.vehicle_threshold
        /\ decisions[i] = FALSE

\* C4: when the current phase's elapsed >= min_green and there is no
\* pedestrian pressure on its lanes (or pedestrian priority is disabled),
\* decide returns advance iff the vehicle total the observation reports over
\* the current phase's lanes is >= vehicle_threshold or elapsed >= max_green.
DemandRule ==
    \A i \in DOMAIN decisions :
        LET phase == current_phase(intersections[i])
        IN  (/\ phase.elapsed >= phase.min_green
             /\ \/ ~controller.pedestrian_priority
                \/ ~PedestrianOnServedLane(intersections[i], observations[i]))
            => (decisions[i] = TRUE <=>
                   \/ ObservedVehicles(intersections[i], observations[i])
                          >= controller.vehicle_threshold
                   \/ phase.elapsed >= phase.max_green)

\* held between min and max green under the threshold, although the lanes of
\* the other phase hold enough vehicles to reach it
DemandRuleWitness ==
    \E i \in DOMAIN decisions :
        LET phase == current_phase(intersections[i])
            obs == observations[i]
        IN  /\ phase.elapsed >= phase.min_green
            /\ phase.elapsed < phase.max_green
            /\ ~PedestrianOnServedLane(intersections[i], obs)
            /\ ObservedVehicles(intersections[i], obs) < controller.vehicle_threshold
            /\ SumSet(obs.vehicles, DOMAIN obs.vehicles) >= controller.vehicle_threshold
            /\ decisions[i] = FALSE

\* the intersection with everything decide is not meant to read changed
Elsewhere(inter, queue, peds, time) ==
    [inter EXCEPT !.lanes = [l \in DOMAIN inter.lanes |->
                                [inter.lanes[l] EXCEPT !.queue = queue,
                                                       !.pedestrians = peds]],
                  !.time = time,
                  !.history = IF time = 0 THEN << >> ELSE << [time |-> 0] >>,
                  !.phases = [k \in DOMAIN inter.phases |->
                                 IF k = inter.current_phase_index + 1 THEN inter.phases[k]
                                 ELSE [inter.phases[k] EXCEPT !.elapsed = time]]]

\* C5: decide leaves the intersection and the observation (and the
\* controller) unchanged, and its result depends only on the current phase's
\* elapsed / min_green / max_green, the observation and the controller's
\* parameters: the same call on an intersection that differs in its lanes'
\* queues and pedestrian counts, its time, its history or the other phases'
\* elapsed counters returns the same decision.
PolicyPurity ==
    [][\A i \in DOMAIN intersections :
          Decide(i) =>
             /\ intersections' = intersections
             /\ observations' = observations
             /\ controller' = controller
             /\ \A queue \in 0 .. MaxQueue, peds \in 0 .. MaxPed, time \in 0 .. 1 :
                    decide(controller, Elsewhere(intersections[i], queue, peds, time),
                           observations[i]).switch_phase = decisions'[i]]_vars

\* decide has returned advance on an intersection whose lanes hold queues
\* the observation does not report
PolicyPurityWitness ==
    \E i \in DOMAIN decisions :
        /\ pc = "decided"
        /\ decisions[i] = TRUE
        /\ \E l \in DOMAIN intersections[i].lanes :
               intersections[i].lanes[l].queue # observations[i].vehicles[l]
        /\ Len(intersections[i].phases) = 2

----------------------------------------------------------------------------
(* SpecSim: run_simulation(layout, controller, steps), one action per call *)
(* of the loop body; range(steps) is empty for steps <= 0.                 *)

\* validated layouts: min_green <= max_green
SimLayouts ==
    UNION { { LayoutOne("A", mn, mx), LayoutPair("A", mn, mx) } :
            mn \in 1 .. SimMaxGreen, mx \in 1 .. SimMaxGreen } 

SimThresholdSet == { 1, ArrivalBurst + 1, vehicle_threshold_default }

SimArrivalSet == { 0, ArrivalBurst }

\* bookkeeping of one run of run_simulation, kept beside the program's state:
\* the steps argument; the iterations completed; the iterations completed since
\* switch_phase last ran; whether every observation so far showed a pedestrian
\* on a lane of the current phase; per lane, the queue at the start of the
\* iteration under way, its arrivals and its discharge (zero between
\* iterations), and the run's arrivals so far less its discharges so far
RunBookkeeping(steps, inters) ==
    LET laneIds == UNION { DOMAIN inters[i].lanes : i \in DOMAIN inters }
        zero == [l \in laneIds |-> 0]
    IN  [called |-> FALSE, steps |-> steps, ticks |-> 0, since |-> 0,
         ped_every_tick |-> TRUE,
         tick_start |-> zero, tick_arrivals |-> zero, tick_discharged |-> zero,
         balance |-> zero]

InitSim ==
    /\ \E layout \in { l \in SimLayouts :
                           \A k \in 1 .. Len(l.phases) :
                              l.phases[k].min_green <= l.phases[k].max_green } :
          intersections = [i \in {layout.id} |-> build_intersection(layout)]
    /\ \E threshold \in SimThresholdSet, priority \in BOOLEAN :
          controller = DemandResponsiveController(threshold, priority)
    /\ observations = NoObservations
    /\ decisions = NoDecisions
    /\ network = NoNetwork
    /\ coordinator = NoCoordinator
    /\ steps_left \in { 0 - 1, 0, MaxSteps }
    /\ sync = RunBookkeeping(steps_left, intersections)
    /\ pc = IF steps_left <= 0 THEN "done" ELSE "arrivals"
    /\ ret = NoneRet("build_intersection")
    /\ err = "None"
    /\ trail = << 0 >>
    /\ ped_seen = FALSE

SimFrame == UNCHANGED << controller, network, coordinator, err >>

\* simulator.py:64
RunArrivals(i, arrivals) ==
    /\ pc = "arrivals"
    /\ intersections' = [intersections EXCEPT
                            ![i].lanes = simulate_arrivals(intersections[i].lanes, arrivals)]
    /\ ret' = NoneRet("simulate_arrivals")
    /\ pc' = "pedestrians"
    /\ sync' = [sync EXCEPT
                   !.tick_start = [l \in DOMAIN intersections[i].lanes |->
                                      intersections[i].lanes[l].queue],
                   !.tick_arrivals = arrivals,
                   !.balance = [l \in DOMAIN arrivals |-> @[l] + arrivals[l]]]
    /\ UNCHANGED << observations, decisions, steps_left, ped_seen, trail >>
    /\ SimFrame

\* simulator.py:65
RunPedestrians(i, crossing) ==
    /\ pc = "pedestrians"
    /\ intersections' = [intersections EXCEPT
                            ![i].lanes = simulate_pedestrians(intersections[i].lanes, crossing)]
    /\ ped_seen' = (ped_seen \/ AnyPedestrian(intersections'))
    /\ ret' = NoneRet("simulate_pedestrians")
    /\ pc' = "observe"
    /\ UNCHANGED << sync, observations, decisions, steps_left, trail >>
    /\ SimFrame

\* simulator.py:67
RunObserve(i) ==
    /\ pc = "observe"
    /\ observations' = [j \in {i} |-> capture_observations(intersections[i])]
    /\ ret' = NoneRet("capture_observations")
    /\ pc' = "decide"
    /\ sync' = [sync EXCEPT
                   !.ped_every_tick =
                       /\ @
                       /\ \E l \in Range(current_phase(intersections[i]).lanes) :
                             observations'[i].pedestrians[l] > 0]
    /\ UNCHANGED << intersections, decisions, steps_left, ped_seen, trail >>
    /\ SimFrame

\* simulator.py:68
RunDecide(i) ==
    /\ pc = "decide"
    /\ LET r == decide(controller, intersections[i], observations[i])
       IN  /\ decisions' = [j \in {i} |-> r.switch_phase]
           /\ intersections' = [intersections EXCEPT ![i] = r.intersection]
           /\ observations' = [observations EXCEPT ![i] = r.observation]
    /\ ret' = NoneRet("decide")
    /\ pc' = "switch"
    /\ UNCHANGED << sync, steps_left, ped_seen, trail >>
    /\ SimFrame

\* the discharge of line 72 done before the switch of lines 69-70
RunSwitch_after_discharge(i) ==
    /\ pc = "switch"
    /\ LET r == apply_discharge(intersections[i], saturation_flow_default)
           inter == IF decisions[i] THEN switch_phase(r.intersection) ELSE r.intersection
           seen == Append(trail, inter.current_phase_index)
           keep == Len(inter.phases) + 1
       IN  /\ intersections' = [intersections EXCEPT ![i] = inter]
           /\ ret' = DischargeRet(saturation_flow_default, r.discharged)
           /\ trail' = IF ~decisions[i] THEN trail
                       ELSE IF Len(seen) > keep
                            THEN SubSeq(seen, Len(seen) - keep + 1, Len(seen))
                            ELSE seen
    /\ pc' = "record"
    /\ sync' = IF decisions[i] THEN [sync EXCEPT !.since = 0] ELSE sync
    /\ UNCHANGED << observations, decisions, steps_left, ped_seen >>
    /\ SimFrame

\* simulator.py:69-70; as in SwitchPhase, trail keeps the index before and
\* after each of the latest len(phases) calls of switch_phase
RunSwitch(i) ==
    /\ pc = "switch"
    /\ IF decisions[i]
       THEN LET inter == switch_phase(intersections[i])
                seen == Append(trail, inter.current_phase_index)
                keep == Len(inter.phases) + 1
            IN  /\ intersections' = [intersections EXCEPT ![i] = inter]
                /\ trail' = IF Len(seen) > keep
                            THEN SubSeq(seen, Len(seen) - keep + 1, Len(seen))
                            ELSE seen
                /\ ret' = SwitchRet(current_phase(intersections[i]))
       ELSE /\ UNCHANGED << intersections, trail >>
            /\ ret' = NoneRet("decide")
    /\ pc' = "discharge"
    /\ sync' = IF decisions[i] THEN [sync EXCEPT !.since = 0] ELSE sync
    /\ UNCHANGED << observations, decisions, steps_left, ped_seen >>
    /\ SimFrame

\* simulator.py:72
RunDischarge(i) ==
    /\ pc = "discharge"
    /\ LET r == apply_discharge(intersections[i], saturation_flow_default)
       IN  /\ intersections' = [intersections EXCEPT ![i] = r.intersection]
           /\ ret' = DischargeRet(saturation_flow_default, r.discharged)
           /\ sync' = [sync EXCEPT
                          !.tick_discharged = [l \in DOMAIN @ |->
                              IF l \in DOMAIN r.discharged THEN r.discharged[l] ELSE 0],
                          !.balance = [l \in DOMAIN @ |->
                              IF l \in DOMAIN r.discharged THEN @[l] - r.discharged[l]
                              ELSE @[l]]]
    /\ pc' = "record"
    /\ UNCHANGED << observations, decisions, steps_left, ped_seen, trail >>
    /\ SimFrame

\* simulator.py:73
RunRecord(i) ==
    /\ pc = "record"
    /\ intersections' = [intersections EXCEPT ![i] = record(intersections[i])]
    /\ ret' = NoneRet("record")
    /\ pc' = "tick"
    /\ UNCHANGED << sync, observations, decisions, steps_left, ped_seen, trail >>
    /\ SimFrame

\* simulator.py:74 and the loop test of line 63; the observation and the
\* decision of the iteration are not read again
RunTick(i) ==
    /\ pc = "tick"
    /\ intersections' = [intersections EXCEPT ![i] = IntersectionState_tick(intersections[i])]
    /\ observations' = NoObservations
    /\ decisions' = NoDecisions
    /\ ret' = NoneRet("tick")
    /\ steps_left' = steps_left - 1
    /\ pc' = IF steps_left' = 0 THEN "done" ELSE "arrivals"
    /\ sync' = [sync EXCEPT !.since = @ + 1, !.ticks = @ + 1,
                             !.tick_start = [l \in DOMAIN @ |-> 0],
                             !.tick_arrivals = [l \in DOMAIN @ |-> 0],
                             !.tick_discharged = [l \in DOMAIN @ |-> 0]]
    /\ UNCHANGED << ped_seen, trail >>
    /\ SimFrame

NextSim ==
    \/ \E i \in DOMAIN intersections :
          \E arrivals \in [DOMAIN intersections[i].lanes -> SimArrivalSet] :
             RunArrivals(i, arrivals)
    \/ \E i \in DOMAIN intersections :
          \E crossing \in SUBSET DOMAIN intersections[i].lanes :
             RunPedestrians(i, crossing)
    \/ \E i \in DOMAIN intersections : RunObserve(i)
    \/ \E i \in DOMAIN intersections : RunDecide(i)
    \/ \E i \in DOMAIN intersections : RunSwitch(i)
    \/ \E i \in DOMAIN intersections : RunDischarge(i)
    \/ \E i \in DOMAIN intersections : RunRecord(i)
    \/ \E i \in DOMAIN intersections : RunTick(i)

SpecSim == InitSim /\ [][NextSim]_vars

\* C1: in run_simulation under DemandResponsiveController, for every
\* sequence of arrivals and pedestrian injections, decide returns hold
\* whenever the current phase's elapsed counter is below its min_green, and
\* switch_phase is never applied to a phase whose elapsed counter is below
\* its min_green.
MinimumGreen ==
    /\ \A i \in DOMAIN decisions :
           (pc = "switch" /\ must_extend_now(intersections[i])) => decisions[i] = FALSE
    /\ ret.op = "switch_phase" => ret.from.elapsed >= ret.from.min_green

\* held inside the minimum green although the observed queue of the served
\* lanes has reached the threshold and no pedestrian is waiting
MinimumGreenWitness ==
    \E i \in DOMAIN decisions :
        LET phase == current_phase(intersections[i])
        IN  /\ pc = "switch"
            /\ phase.elapsed >= 1
            /\ phase.elapsed < phase.min_green
            /\ ObservedVehicles(intersections[i], observations[i])
                   >= controller.vehicle_threshold
            /\ ~PedestrianOnServedLane(intersections[i], observations[i])
            /\ decisions[i] = FALSE

TickOrdering ==
    \A i \in DOMAIN decisions :
        LET inter == intersections[i]
            obs == observations[i]
            cur == current_phase(inter)
            n == Len(trail)
            switched == decisions[i] /\ Len(inter.phases) >= 2
        IN  /\ pc = "record" =>
                   /\ ret.op = "apply_discharge"
                   /\ DOMAIN ret.value = Range(cur.lanes)
                   /\ \A l \in Range(cur.lanes) :
                          ret.value[l] = (IF obs.vehicles[l] <= 5 THEN obs.vehicles[l] ELSE 5)
            /\ pc \in { "record", "tick" } =>
                   /\ \A l \in DOMAIN inter.lanes :
                          /\ l \in Range(cur.lanes) =>
                                 inter.lanes[l].queue =
                                    (IF obs.vehicles[l] <= 5 THEN 0 ELSE obs.vehicles[l] - 5)
                          /\ l \notin Range(cur.lanes) =>
                                 inter.lanes[l].queue = obs.vehicles[l]
                          /\ inter.lanes[l].pedestrians =
                                 (IF obs.pedestrians[l] >= 1 THEN obs.pedestrians[l] - 1 ELSE 0)
                   /\ decisions[i] =>
                          /\ n >= 2
                          /\ trail[n] = inter.current_phase_index
                          /\ cur.elapsed = 0
                   /\ switched => trail[n - 1] # inter.current_phase_index
            /\ pc = "tick" =>
                   LET snapshot == inter.history[Len(inter.history)]
                   IN  /\ snapshot.time = inter.time
                       /\ snapshot.phase = cur.name
                       /\ switched => snapshot.phase # inter.phases[trail[n - 1] + 1].name
                       /\ \A l \in DOMAIN inter.lanes :
                              snapshot.queues[l] = inter.lanes[l].queue

\* a tick that advanced with vehicles observed on both lanes and a pedestrian
\* on the lane of the next phase: the lane of the phase left keeps its queue,
\* the lane of the new phase is discharged, the pedestrian is gone and the
\* snapshot names the new phase
TickOrderingWitness ==
    \E i \in DOMAIN decisions :
        LET inter == intersections[i]
            obs == observations[i]
            cur == current_phase(inter)
        IN  /\ pc = "tick"
            /\ decisions[i] = TRUE
            /\ Len(inter.phases) = 2
            /\ Len(trail) >= 2
            /\ \A l \in DOMAIN inter.lanes : obs.vehicles[l] >= 1
            /\ \E l \in Range(cur.lanes) :
                   /\ inter.lanes[l].queue < obs.vehicles[l]
                   /\ obs.pedestrians[l] = 1
                   /\ inter.lanes[l].pedestrians = 0
            /\ \E l \in Range(inter.phases[trail[Len(trail) - 1] + 1].lanes) :
                   /\ l \notin Range(cur.lanes)
                   /\ inter.lanes[l].queue = obs.vehicles[l]
            /\ inter.history[Len(inter.history)].phase = cur.name

\* C17: run_simulation called with steps < 0 fails with an argument error at
\* the call boundary, before any state is mutated, instead of returning a
\* result.
NegativeStepsRejected ==
    (steps_left < 0 /\ pc = "done") => err # "None"

----------------------------------------------------------------------------
(* SpecSync: CoordinatedSignalManager.sync_and_decide called once, as      *)
(* tests/test_network.py calls it, on a two-intersection network whose     *)
(* phases, elapsed counters and clock were set up by hand.                 *)

SyncLayouts == << LayoutPair("A", 1, 2), LayoutPair("B", 1, 2) >>

\* the intersection put on phase index idx with that phase's elapsed counter
\* at elapsed
OnPhase(inter, idx, elapsed) ==
    [inter EXCEPT !.current_phase_index = idx, !.phases[idx + 1].elapsed = elapsed]

\* the vehicle counts tried: every small count on every lane, and one lane
\* alone at the default threshold of the local controllers
SyncVehicles(lanes) ==
    [lanes -> 0 .. MaxObserved]
      \cup { [l \in lanes |-> IF l = busy THEN vehicle_threshold_default ELSE 0] :
                 busy \in lanes }

\* an observation of lanes with no pedestrian or one on every lane
SyncObservations(lanes) ==
    { DetectorObservation(vehicles, [l \in lanes |-> peds]) :
         vehicles \in SyncVehicles(lanes), peds \in 0 .. 1 }

\* the observation dicts tried: one observation per intersection, or the
\* observation of some intersections left out
SyncObservationMaps(ids, lanes) ==
    UNION { [present -> SyncObservations(lanes)] : present \in SUBSET ids }

InitSync ==
    /\ \E offsetB \in (0 - 1) .. MaxOffset, time \in 0 .. MaxTime :
       \E built \in { build_network(SyncLayouts, [i \in {"B"} |-> offsetB]) } :
       \E idx \in [DOMAIN built.intersections -> 0 .. 1], elapsed \in 0 .. 2 :
          /\ intersections = [i \in DOMAIN built.intersections |->
                                 OnPhase(built.intersections[i], idx[i], elapsed)]
          /\ network = [built.network EXCEPT !.time = time]
    /\ \E corridor_lanes \in { {"N_S"}, {} }, green_band \in { 1, CycleLength } :
          coordinator = CoordinatedSignalManager(corridor_lanes, CycleLength, green_band)
    /\ observations \in SyncObservationMaps(DOMAIN intersections, {"N_S", "E_W"})
    /\ controller = DemandResponsiveController(vehicle_threshold_default, TRUE)
    /\ decisions = NoDecisions
    /\ sync = NoSync
    /\ pc = "sync"
    /\ steps_left = 0
    /\ ret = NoneRet("build_network")
    /\ err = "None"
    /\ trail = << 0 >>
    /\ ped_seen = FALSE

\* sync keeps the call's locals, and the intersections and the local
\* controllers as they were before it
SyncAndDecide ==
    /\ pc = "sync"
    /\ LET r == sync_and_decide(coordinator, network, intersections, observations)
       IN  /\ intersections' = r.intersections
           /\ coordinator' = [coordinator EXCEPT !.local_controllers = r.local_controllers]
           /\ decisions' = r.decisions
           /\ err' = r.err
           /\ sync' = [called |-> TRUE,
                       corridor_pressure |-> r.corridor_pressure,
                       cross_pressure |-> r.cross_pressure,
                       prioritize_corridor |-> r.prioritize_corridor,
                       before |-> intersections,
                       controllers_before |-> coordinator.local_controllers]
    /\ pc' = "synced"
    /\ UNCHANGED << controller, observations, network, steps_left, ret, trail, ped_seen >>

NextSync == SyncAndDecide

SpecSync == InitSync /\ [][NextSync]_vars

\* the (intersection, lane) pairs the observations report, on and off the corridor
ObservedPairs ==
    UNION { { << i, l >> : l \in DOMAIN observations[i].vehicles } : i \in DOMAIN observations }
CorridorPairs == { p \in ObservedPairs : p[2] \in coordinator.corridor_lanes }
CrossPairs == { p \in ObservedPairs : p[2] \notin coordinator.corridor_lanes }
PairCount == [p \in ObservedPairs |-> observations[p[1]].vehicles[p[2]]]
CorridorTotal == SumSet(PairCount, CorridorPairs)
CrossTotal == SumSet(PairCount, CrossPairs)

\* the 0-based indices of the phases of inter that serve a corridor lane
CorridorPhaseIndices(inter) ==
    { k \in 0 .. (Len(inter.phases) - 1) :
         Range(inter.phases[k + 1].lanes) \cap coordinator.corridor_lanes # {} }

InGreenBand(i) ==
    (network.time + network.offsets[i]) % coordinator.cycle_length < coordinator.green_band

\* C9: in sync_and_decide, for every intersection such that corridor
\* priority is active, the intersection has a corridor phase (the first
\* phase in declaration order serving a corridor lane) and
\* (network.time + offset) mod cycle_length < green_band, the current phase
\* after the call is that corridor phase and the decision emitted for it is
\* hold, even when it was on a non-corridor phase before the call (the call
\* being handed an observation for every intersection).
ForcedCorridorAlignment ==
    (sync.called /\ DOMAIN observations = DOMAIN intersections) =>
        \A i \in DOMAIN intersections :
            (/\ CorridorTotal >= CrossTotal
             /\ CorridorPhaseIndices(intersections[i]) # {}
             /\ InGreenBand(i))
            => /\ i \in DOMAIN decisions
               /\ decisions[i] = FALSE
               /\ intersections[i].current_phase_index \in CorridorPhaseIndices(intersections[i])
               /\ \A k \in CorridorPhaseIndices(intersections[i]) :
                      intersections[i].current_phase_index <= k

\* C10: in sync_and_decide, corridor priority is active iff the sum of the
\* observed vehicle counts on corridor lanes over all intersections is >=
\* the sum of the observed counts on all other lanes over all intersections
\* (ties, all-zero included, activate it); the call has one flag for all
\* intersections.
GlobalCorridorFlag ==
    sync.called =>
        /\ sync.corridor_pressure = CorridorTotal
        /\ sync.cross_pressure = CrossTotal
        /\ sync.prioritize_corridor = (CorridorTotal >= CrossTotal)

\* a tie of non-zero corridor and cross pressure activated corridor priority
\* in a call that returned its decisions
GlobalCorridorFlagWitness ==
    /\ sync.called
    /\ err = "None"
    /\ DOMAIN decisions = DOMAIN intersections
    /\ CorridorTotal = CrossTotal
    /\ CorridorTotal >= 2
    /\ sync.prioritize_corridor

\* the intersection is force-aligned by the call: corridor priority is active,
\* it has a corridor phase and its offset-adjusted time is inside the green band
ForceAligned(i) ==
    /\ CorridorTotal >= CrossTotal
    /\ CorridorPhaseIndices(intersections[i]) # {}
    /\ InGreenBand(i)

\* advance or hold, by the rule of a demand-responsive policy with the default
\* threshold of 12 and pedestrian priority on
LocalAdvance(inter, obs) ==
    LET phase == current_phase(inter)
    IN  /\ phase.elapsed >= phase.min_green
        /\ ~PedestrianOnServedLane(inter, obs)
        /\ \/ ObservedVehicles(inter, obs) >= 12
           \/ phase.elapsed >= phase.max_green

\* C11: in sync_and_decide, for every intersection that is not force-aligned
\* (corridor priority inactive, or no corridor phase, or offset-adjusted time
\* outside the green band), the decision emitted for it is the decision of a
\* DemandResponsiveController with vehicle_threshold 12 and pedestrian
\* priority on, on the intersection's own state and observation; a call that
\* returns emits one for it, through a local controller with those
\* parameters; and the call leaves its phase index and elapsed counters
\* unchanged.
DelegationToLocalPolicy ==
    sync.called =>
        \A i \in DOMAIN intersections \cap DOMAIN observations :
            ~ForceAligned(i) =>
                /\ intersections[i].current_phase_index = sync.before[i].current_phase_index
                /\ \A k \in DOMAIN intersections[i].phases :
                       intersections[i].phases[k].elapsed = sync.before[i].phases[k].elapsed
                /\ i \in DOMAIN decisions =>
                       /\ decisions[i] = LocalAdvance(sync.before[i], observations[i])
                       /\ i \in DOMAIN coordinator.local_controllers
                       /\ coordinator.local_controllers[i] = DemandResponsiveController(12, TRUE)
                /\ err = "None" => i \in DOMAIN decisions

\* a call that held one intersection inside its green band and delegated the
\* other, outside its band, whose local policy advanced between minimum and
\* maximum green because the observed queue reached the threshold
DelegationToLocalPolicyWitness ==
    /\ sync.called
    /\ err = "None"
    /\ \E i, j \in DOMAIN decisions :
          /\ ForceAligned(j)
          /\ decisions[j] = FALSE
          /\ ~ForceAligned(i)
          /\ CorridorPhaseIndices(intersections[i]) # {}
          /\ current_phase(intersections[i]).elapsed < current_phase(intersections[i]).max_green
          /\ ObservedVehicles(intersections[i], observations[i]) >= 12
          /\ decisions[i] = TRUE

\* C18: if sync_and_decide is called without an observation for some
\* intersection of the network, the call fails with an error and has mutated
\* nothing: no intersection's phase index or elapsed counter and no local
\* controller of the coordinator differs from before the call, wherever the
\* intersection without observation comes in the iteration order.
MissingObservationAtomic ==
    (sync.called /\ DOMAIN intersections \ DOMAIN observations # {}) =>
        /\ err # "None"
        /\ coordinator.local_controllers = sync.controllers_before
        /\ \A i \in DOMAIN intersections :
               /\ intersections[i].current_phase_index = sync.before[i].current_phase_index
               /\ \A k \in DOMAIN intersections[i].phases :
                      intersections[i].phases[k].elapsed = sync.before[i].phases[k].elapsed

----------------------------------------------------------------------------
(* SpecBand: CoordinatedSignalManager._within_green_band evaluated at      *)
(* consecutive network times, for one intersection with a clock offset.    *)

InitBand ==
    /\ \E cycle_length \in 1 .. MaxCycle :
       \E green_band \in 0 .. (cycle_length + 1) :
          coordinator = CoordinatedSignalManager({}, cycle_length, green_band)
    /\ \E offset \in (0 - MaxBandOffset) .. MaxBandOffset :
          network = TrafficNetwork(<< "A" >>, [i \in {"A"} |-> offset])
    /\ intersections = << >>
    /\ controller = DemandResponsiveController(vehicle_threshold_default, TRUE)
    /\ observations = NoObservations
    /\ decisions = NoDecisions
    /\ sync = NoSync
    /\ pc = "band"
    /\ steps_left = 0
    /\ ret = NoneRet("build_network")
    /\ err = "None"
    /\ trail = << >>
    /\ ped_seen = FALSE

\* the call at network.time, then the clock moves on as network.py:139 moves
\* it; trail keeps the results of the latest cycle_length + 1 calls
WithinGreenBand(i) ==
    /\ pc = "band"
    /\ network.time < MaxBandTime
    /\ LET seen == Append(trail, within_green_band(coordinator, network.time,
                                                   network.offsets[i]))
           keep == coordinator.cycle_length + 1
       IN  trail' = IF Len(seen) > keep THEN SubSeq(seen, Len(seen) - keep + 1, Len(seen))
                    ELSE seen
    /\ network' = [network EXCEPT !.time = network.time + 1]
    /\ ret' = NoneRet("within_green_band")
    /\ UNCHANGED << intersections, controller, observations, decisions, coordinator,
                    sync, pc, steps_left, err, ped_seen >>

NextBand == \E i \in DOMAIN network.offsets : WithinGreenBand(i)

SpecBand == InitBand /\ [][NextBand]_vars

\* the residue of x modulo c: the r in 0 .. c - 1 with x = q * c + r
Residue(x, c) ==
    CHOOSE r \in 0 .. (c - 1) :
        \E q \in (0 - (MaxBandOffset + MaxBandTime + 2)) .. (MaxBandOffset + MaxBandTime + 2) :
            x = q * c + r

\* the network time of the k-th result kept in trail
TrailTime(k) == network.time - Len(trail) + k - 1

\* C12: for positive cycle_length, 0 <= green_band <= cycle_length and any
\* integer offset, _within_green_band(t, offset) is
\* ((t + offset) mod cycle_length) < green_band, with the non-negative
\* residue; it has period cycle_length in t; and in every window of
\* cycle_length consecutive values of t it is true for exactly green_band
\* values, which are consecutive modulo the cycle.
GreenBandPeriodicity ==
    (pc = "band" /\ coordinator.green_band <= coordinator.cycle_length) =>
        LET c == coordinator.cycle_length
            offset == network.offsets["A"]
            n == Len(trail)
        IN  /\ \A k \in 1 .. n :
                   trail[k] = (Residue(TrailTime(k) + offset, c) < coordinator.green_band)
            /\ n = c + 1 =>
                   /\ trail[c + 1] = trail[1]
                   /\ Cardinality({ k \in 1 .. c : trail[k] }) = coordinator.green_band
                   /\ Cardinality({ k \in 1 .. c : ~trail[k] /\ trail[k + 1] }) <= 1

\* a band of two out of a cycle of three or more, met at a negative
\* offset-adjusted time and wrapping around the end of the window
GreenBandPeriodicityWitness ==
    /\ pc = "band"
    /\ coordinator.cycle_length >= 3
    /\ coordinator.green_band = 2
    /\ Len(trail) = coordinator.cycle_length + 1
    /\ network.time = coordinator.cycle_length + 1
    /\ network.offsets["A"] < 0 - coordinator.cycle_length
    /\ trail[1] /\ ~trail[2] /\ trail[coordinator.cycle_length]

----------------------------------------------------------------------------
(* SpecNet: run_network_simulation(layouts, coordinator, steps, offsets=)  *)
(* over two intersections, one action per statement of the loop body, and  *)
(* then synthesize_frames on the intersections of the network returned, as *)
(* tests/test_network.py exports them.  range(steps) is empty for          *)
(* steps <= 0.  sync keeps the steps argument and, per intersection,       *)
(* whether every call of sync_and_decide so far found corridor pressure    *)
(* >= cross pressure and the intersection inside its green band.           *)

NetLayouts ==
    { << LayoutPair("A", 1, 2), LayoutPair("B", 1, 2) >>,
      << LayoutPair("B", 1, 2), LayoutPair("A", 1, 2) >> }

NetCorridors == { {"N_S"}, {"E_W"}, {} }

\* the draws of one tick: the vehicles that arrive on each lane and the lanes
\* a pedestrian steps onto, the same at every intersection
NetArrivalSet == [{"N_S", "E_W"} -> { 0, ArrivalBurst }]
NetCrossingSet == { {}, {"N_S", "E_W"} }

InitNet ==
    /\ \E layouts \in NetLayouts, offsetB \in (0 - 1) .. MaxOffset :
       \E built \in { build_network(layouts, [i \in {"B"} |-> offsetB]) } :
          /\ intersections = built.intersections
          /\ network = built.network
    /\ \E corridor_lanes \in NetCorridors, green_band \in { 1, CycleLength } :
          coordinator = CoordinatedSignalManager(corridor_lanes, CycleLength, green_band)
    /\ steps_left \in { 0 - 1, 0, MaxNetSteps }
    /\ sync = [called |-> FALSE, steps |-> steps_left,
               corridor_ticks |-> [i \in DOMAIN intersections |-> TRUE]]
    /\ pc = IF steps_left <= 0 THEN "done" ELSE "inject"
    /\ controller = DemandResponsiveController(vehicle_threshold_default, TRUE)
    /\ observations = NoObservations
    /\ decisions = NoDecisions
    /\ ret = NoneRet("build_network")
    /\ err = "None"
    /\ trail = << 0 >>
    /\ ped_seen = FALSE

NetFrame == UNCHANGED << controller, trail >>

\* network.py:119-121
NetInject(arrivals, crossing) ==
    /\ pc = "inject"
    /\ intersections' =
          [i \in DOMAIN intersections |->
              [intersections[i] EXCEPT
                  !.lanes = simulate_pedestrians(
                                simulate_arrivals(intersections[i].lanes, arrivals),
                                crossing)]]
    /\ ped_seen' = (ped_seen \/ AnyPedestrian(intersections'))
    /\ ret' = NoneRet("simulate_pedestrians")
    /\ pc' = "observe"
    /\ UNCHANGED << observations, decisions, network, coordinator, sync, steps_left, err >>
    /\ NetFrame

\* network.py:123-126
NetObserve ==
    /\ pc = "observe"
    /\ observations' = [i \in DOMAIN intersections |-> capture_observations(intersections[i])]
    /\ ret' = NoneRet("capture_observations")
    /\ pc' = "sync"
    /\ UNCHANGED << intersections, decisions, network, coordinator, sync, steps_left,
                    err, ped_seen >>
    /\ NetFrame

\* network.py:128; an exception leaves run_network_simulation
NetSync ==
    /\ pc = "sync"
    /\ LET r == sync_and_decide(coordinator, network, intersections, observations)
       IN  /\ intersections' = r.intersections
           /\ coordinator' = [coordinator EXCEPT !.local_controllers = r.local_controllers]
           /\ decisions' = r.decisions
           /\ err' = r.err
           /\ pc' = IF r.err = "None" THEN "switch" ELSE "raised"
    /\ sync' = [sync EXCEPT
                   !.called = TRUE,
                   !.corridor_ticks =
                       [i \in DOMAIN intersections |->
                           /\ sync.corridor_ticks[i]
                           /\ CorridorTotal >= CrossTotal
                           /\ InGreenBand(i)]]
    /\ ret' = NoneRet("sync_and_decide")
    /\ UNCHANGED << observations, network, steps_left, ped_seen >>
    /\ NetFrame

\* the loop of lines 129-131 fused with the loop of lines 133-136: each
\* intersection is discharged as soon as its own decision has been applied
NetSwitch_interleaved ==
    /\ pc = "switch"
    /\ intersections' =
          [i \in DOMAIN intersections |->
              apply_discharge(IF i \in DOMAIN decisions /\ decisions[i]
                              THEN switch_phase(intersections[i]) ELSE intersections[i],
                              saturation_flow_default).intersection]
    /\ ret' = NoneRet("switch_phase")
    /\ pc' = "discharge"
    /\ UNCHANGED << observations, decisions, network, coordinator, sync, steps_left,
                    err, ped_seen >>
    /\ NetFrame

\* network.py:129-131
NetSwitch ==
    /\ pc = "switch"
    /\ intersections' =
          [i \in DOMAIN intersections |->
              IF i \in DOMAIN decisions /\ decisions[i]
              THEN switch_phase(intersections[i]) ELSE intersections[i]]
    /\ ret' = NoneRet("switch_phase")
    /\ pc' = "discharge"
    /\ UNCHANGED << observations, decisions, network, coordinator, sync, steps_left,
                    err, ped_seen >>
    /\ NetFrame

\* network.py:133-136
NetDischarge ==
    /\ pc = "discharge"
    /\ intersections' =
          [i \in DOMAIN intersections |->
              IntersectionState_tick(
                  record(apply_discharge(intersections[i],
                                         saturation_flow_default).intersection))]
    /\ ret' = NoneRet("tick")
    /\ pc' = "record"
    /\ UNCHANGED << observations, decisions, network, coordinator, sync, steps_left,
                    err, ped_seen >>
    /\ NetFrame

\* network.py:138-139 and the loop test of line 118; the observations and
\* the decisions of the iteration are not read again
NetRecord ==
    /\ pc = "record"
    /\ LET recorded == network_record(network, intersections)
       IN  network' = [recorded EXCEPT !.time = recorded.time + 1]
    /\ observations' = NoObservations
    /\ decisions' = NoDecisions
    /\ steps_left' = steps_left - 1
    /\ pc' = IF steps_left' = 0 THEN "done" ELSE "inject"
    /\ ret' = NoneRet("record")
    /\ UNCHANGED << intersections, coordinator, sync, err, ped_seen >>
    /\ NetFrame

\* synthesize_frames(network.intersections.values()) on the network returned
SynthesizeFrames ==
    /\ pc = "done"
    /\ ret' = [op |-> "synthesize_frames",
               value |-> synthesize_frames([k \in 1 .. Len(network.order) |->
                                               intersections[network.order[k]]])]
    /\ pc' = "exported"
    /\ UNCHANGED << intersections, observations, decisions, network, coordinator, sync,
                    steps_left, err, ped_seen >>
    /\ NetFrame

NextNet ==
    \/ \E arrivals \in NetArrivalSet, crossing \in NetCrossingSet :
          NetInject(arrivals, crossing)
    \/ NetObserve
    \/ NetSync
    \/ NetSwitch
    \/ NetDischarge
    \/ NetRecord
    \/ SynthesizeFrames

SpecNet == InitNet /\ [][NextNet]_vars

\* C19: N ticks of run_network_simulation over K intersections, then
\* synthesize_frames on the intersections, give exactly N x K frames, exactly
\* one per (time in 0 .. N - 1, intersection identifier) pair, sorted
\* ascending by (time, intersection identifier).
NetworkHistoryExport ==
    (pc = "exported" /\ sync.steps >= 0) =>
        LET frames == ret.value
            N == sync.steps
            ids == DOMAIN intersections
        IN  /\ Len(frames) = N * Cardinality(ids)
            /\ \A t \in 0 .. (N - 1), id \in ids :
                   Cardinality({ k \in 1 .. Len(frames) :
                                    frames[k].time = t /\ frames[k].intersection = id }) = 1
            /\ \A k \in 1 .. (Len(frames) - 1) :
                   \/ frames[k].time < frames[k + 1].time
                   \/ /\ frames[k].time = frames[k + 1].time
                      /\ frames[k].intersection = "A"
                      /\ frames[k + 1].intersection = "B"

\* the export of a full run over a network built with B before A, in which
\* an intersection changed phase on the way
NetworkHistoryExportWitness ==
    /\ pc = "exported"
    /\ sync.steps = MaxNetSteps
    /\ network.order = << "B", "A" >>
    /\ Len(ret.value) = 2 * MaxNetSteps
    /\ ret.value[1].intersection = "A"
    /\ \E j, k \in 1 .. Len(ret.value) :
          /\ ret.value[j].intersection = ret.value[k].intersection
          /\ ret.value[j].phase # ret.value[k].phase

\* the 0-based index of the corridor phase of inter: the first phase, in
\* declaration order, that serves a corridor lane
FirstCorridorIndex(inter) ==
    CHOOSE k \in CorridorPhaseIndices(inter) : \A j \in CorridorPhaseIndices(inter) : k <= j

\* the lanes of inter that its corridor phase does not serve
StarvedLanes(inter) ==
    DOMAIN inter.lanes \ Range(inter.phases[FirstCorridorIndex(inter) + 1].lanes)

\* C20: in run_network_simulation, as long as at every tick corridor
\* pressure >= cross pressure and the intersection's offset-adjusted time is
\* inside the green band, an intersection that has a corridor phase is on
\* that phase at every discharge, and the queues of the lanes served only by
\* its other phases never decrease, for as many ticks as the run has.
CorridorStarvation ==
    [][\A i \in DOMAIN intersections :
          (sync.corridor_ticks[i] /\ CorridorPhaseIndices(intersections[i]) # {}) =>
             /\ pc = "discharge" =>
                    intersections[i].current_phase_index = FirstCorridorIndex(intersections[i])
             /\ \A l \in StarvedLanes(intersections[i]) :
                    intersections'[i].lanes[l].queue >= intersections[i].lanes[l].queue]_vars

\* a full run in which corridor and cross pressure were level at every tick:
\* the vehicles that arrived on the side street in the first tick are still
\* there after the last one, every snapshot shows the corridor phase, and the
\* corridor lane was emptied on the way
CorridorStarvationWitness ==
    /\ pc = "done"
    /\ sync.steps = MaxNetSteps
    /\ Len(network.history) = MaxNetSteps
    /\ coordinator.corridor_lanes = {"N_S"}
    /\ \A i \in DOMAIN intersections :
          /\ sync.corridor_ticks[i]
          /\ intersections[i].lanes["E_W"].queue >= ArrivalBurst
          /\ \A k \in 1 .. Len(network.history) :
                 /\ network.history[k].intersections[i].phase = "main_corridor"
                 /\ network.history[k].intersections[i].queues["E_W"] >= ArrivalBurst
          /\ \E k \in 1 .. Len(network.history) :
                 network.history[k].intersections[i].queues["N_S"] = 0

(***************************************************************************)
(* Claims about whole runs of run_simulation (SpecSim) and of              *)
(* run_network_simulation (SpecNet).                                       *)
(***************************************************************************)

HistoryAppendOnly ==
    /\ [](\A i \in DOMAIN intersections :
             LET inter == intersections[i]
                 h == inter.history
             IN  /\ inter.time = sync.ticks
                 /\ Len(h) = sync.ticks + (IF pc = "tick" THEN 1 ELSE 0)
                 /\ \A k \in 1 .. Len(h) : h[k].time = k - 1
                 /\ \A j, k \in 1 .. Len(h) : j < k => h[j].time < h[k].time
                 /\ pc = "done" =>
                        /\ sync.ticks = (IF sync.steps > 0 THEN sync.steps ELSE 0)
                        /\ Len(h) = sync.ticks)
    /\ [][\A i \in DOMAIN intersections :
             LET h == intersections[i].history
                 g == intersections'[i].history
             IN  /\ Len(g) >= Len(h)
                 /\ Len(g) <= Len(h) + 1
                 /\ \A k \in 1 .. Len(h) : g[k] = h[k]]_vars

\* the end of a full run that switched phase and whose queues changed after
\* the first snapshot was recorded: the first snapshot still shows the phase
\* and the queues of the first tick
HistoryAppendOnlyWitness ==
    /\ pc = "done"
    /\ sync.steps = MaxSteps
    /\ \E i \in DOMAIN intersections :
          LET inter == intersections[i]
              h == inter.history
          IN  /\ Len(h) = MaxSteps
              /\ inter.time = MaxSteps
              /\ h[1].phase # current_phase(inter).name
              /\ \E l \in DOMAIN inter.lanes : h[1].queues[l] # inter.lanes[l].queue
              /\ \E k \in 2 .. Len(h) : h[k].phase # h[1].phase

\* C23: in every reachable state of run_simulation the elapsed time of the
\* current phase is the number of ticks performed since switch_phase last
\* made a phase current (since the start of the run if it never ran), and it
\* is zero right after switch_phase; this includes the switch of a
\* single-phase intersection onto its only phase.
ElapsedSinceActivation ==
    \A i \in DOMAIN intersections :
        LET inter == intersections[i]
        IN  /\ current_phase(inter).elapsed = sync.since
            /\ sync.since <= inter.time
            /\ Len(trail) = 1 => sync.since = inter.time
            /\ (pc = "discharge" /\ ret.op = "switch_phase") =>
                   current_phase(inter).elapsed = 0

\* a single-phase intersection that advanced onto its only phase after the
\* first tick: its elapsed time restarted and is behind the clock
ElapsedSinceActivationWitness ==
    \E i \in DOMAIN intersections :
        LET inter == intersections[i]
        IN  /\ Len(inter.phases) = 1
            /\ Len(trail) >= 2
            /\ current_phase(inter).elapsed >= 1
            /\ current_phase(inter).elapsed < inter.time

\* C24: in every tick of run_network_simulation, once the observations
\* exist they cover every intersection and show the lanes as they stand after
\* the injections of the tick and until the discharge; no phase changes while
\* arrivals are injected, observations captured and decisions computed; every
\* decision is the one the observations and the not yet switched
\* intersection call for; switching touches no lane, history or clock; and
\* the discharge changes no phase, so every switch of the tick precedes every
\* discharge of the tick.
ObservationBarrier ==
    /\ []((pc \in { "sync", "switch", "discharge" }) =>
             (/\ DOMAIN observations = DOMAIN intersections
              /\ \A i \in DOMAIN intersections :
                     \A l \in DOMAIN intersections[i].lanes :
                        /\ observations[i].vehicles[l] = intersections[i].lanes[l].queue
                        /\ observations[i].pedestrians[l] =
                               intersections[i].lanes[l].pedestrians))
    /\ []((pc = "switch") =>
             (/\ DOMAIN decisions = DOMAIN intersections
              /\ \A i \in DOMAIN intersections :
                     decisions[i] = (/\ ~ForceAligned(i)
                                     /\ LocalAdvance(intersections[i], observations[i]))))
    /\ [][\A i \in DOMAIN intersections :
             LET a == intersections[i]
                 b == intersections'[i]
             IN  /\ pc \in { "inject", "observe", "sync", "discharge" } =>
                        /\ b.current_phase_index = a.current_phase_index
                        /\ \A k \in DOMAIN a.phases :
                               k # a.current_phase_index + 1 => b.phases[k] = a.phases[k]
                 /\ pc \in { "inject", "observe", "sync" } => b.phases = a.phases
                 /\ pc \in { "observe", "sync", "switch" } =>
                        /\ b.lanes = a.lanes
                        /\ b.history = a.history
                        /\ b.time = a.time
                 /\ pc = "discharge" =>
                        \A l \in DOMAIN a.lanes :
                           l \notin Range(current_phase(a).lanes) =>
                              b.lanes[l].queue = a.lanes[l].queue]_vars

\* between the switches and the discharges of a tick in which one
\* intersection advanced and the other held: the lanes of the phase just made
\* current still hold the vehicles observed
ObservationBarrierWitness ==
    /\ pc = "discharge"
    /\ \E i, j \in DOMAIN intersections :
          /\ decisions[i]
          /\ ~decisions[j]
          /\ intersections[i].current_phase_index # intersections[j].current_phase_index
          /\ \E l \in Range(current_phase(intersections[i]).lanes) :
                 /\ intersections[i].lanes[l].queue > 0
                 /\ observations[i].vehicles[l] = intersections[i].lanes[l].queue

\* the sum of the max_green of all phases of an intersection
GreenBudget(inter) ==
    SumSet([k \in DOMAIN inter.phases |-> inter.phases[k].max_green], DOMAIN inter.phases)

PedestrianOverridesMaxGreen ==
    (controller.pedestrian_priority /\ sync.ped_every_tick) =>
        \A i \in DOMAIN intersections :
            LET inter == intersections[i]
            IN  /\ (pc = "switch" /\ i \in DOMAIN decisions) => decisions[i] = FALSE
                /\ trail = << 0 >>
                /\ inter.current_phase_index = 0
                /\ current_phase(inter).elapsed = inter.time
                /\ \A k \in DOMAIN inter.phases : k # 1 => inter.phases[k].elapsed = 0
                /\ \A k \in 1 .. Len(inter.history) :
                       inter.history[k].phase = inter.phases[1].name

\* the decision of the last tick of a full run with a pedestrian on the served
\* lane at every tick: the first phase is past its max_green, its observed
\* queue has reached the threshold, the decision is hold, and the lane of the
\* other phase has kept every vehicle that arrived
PedestrianOverridesMaxGreenWitness ==
    /\ pc = "switch"
    /\ steps_left = 1
    /\ controller.pedestrian_priority
    /\ sync.ped_every_tick
    /\ sync.steps = MaxSteps
    /\ \E i \in DOMAIN decisions :
          LET inter == intersections[i]
          IN  /\ Len(inter.phases) = 2
              /\ current_phase(inter).elapsed = MaxSteps - 1
              /\ current_phase(inter).elapsed > current_phase(inter).max_green
              /\ ObservedVehicles(inter, observations[i]) >= controller.vehicle_threshold
              /\ decisions[i] = FALSE
              /\ \A l \in Range(inter.phases[2].lanes) :
                     inter.lanes[l].queue = MaxSteps * ArrivalBurst

\* C27: in run_simulation and in run_network_simulation, every lane's
\* pedestrian count is 0 at the start of every tick (and from the discharge
\* of a tick to the pedestrian injection of the next, and when the run has
\* returned), is 0 in every recorded snapshot, is 0 or 1 in every observation
\* handed to the policy, and is never anything but 0 or 1.
PedestriansNeverAccumulate ==
    \A i \in DOMAIN intersections :
        \A l \in DOMAIN intersections[i].lanes :
            LET inter == intersections[i]
            IN  /\ pc \in { "arrivals", "inject", "pedestrians", "record", "tick",
                            "done", "exported" } =>
                       inter.lanes[l].pedestrians = 0
                /\ inter.lanes[l].pedestrians \in { 0, 1 }
                /\ \A k \in 1 .. Len(inter.history) : inter.history[k].pedestrians[l] = 0
                /\ i \in DOMAIN observations => observations[i].pedestrians[l] \in { 0, 1 }

\* the third tick or a later one of a run in which a pedestrian was injected
\* on a lane of the current phase at every tick: the observation shows one
\* pedestrian on a lane the current phase serves and one on a lane it does
\* not serve, and the snapshots recorded show none
PedestriansNeverAccumulateWitness ==
    /\ pc = "decide"
    /\ sync.ped_every_tick
    /\ \E i \in DOMAIN observations :
          LET inter == intersections[i]
          IN  /\ inter.time >= 2
              /\ Len(inter.history) >= 2
              /\ \E l \in Range(current_phase(inter).lanes) :
                     observations[i].pedestrians[l] = 1
              /\ \E l \in DOMAIN inter.lanes \ Range(current_phase(inter).lanes) :
                     observations[i].pedestrians[l] = 1

\* C28: in every tick of run_simulation, for every lane, from the arrivals to
\* the discharge the queue is the queue at the start of the tick plus the
\* arrivals of the tick; after the discharge it is that sum less the
\* discharge, which is min(sum, 5) on a lane of the phase current after the
\* decision and 0 on any other lane; between ticks and at the end of the run
\* the queue is the arrivals of the run so far less its discharges so far;
\* and no step other than the arrivals and the discharge changes a queue.
VehicleConservation ==
    /\ [](\A i \in DOMAIN intersections :
             \A l \in DOMAIN intersections[i].lanes :
                LET inter == intersections[i]
                    loaded == sync.tick_start[l] + sync.tick_arrivals[l]
                    served == l \in Range(current_phase(inter).lanes)
                    discharged == IF ~served THEN 0 ELSE IF loaded <= 5 THEN loaded ELSE 5
                IN  /\ pc \in { "pedestrians", "observe", "decide", "switch", "discharge" } =>
                           inter.lanes[l].queue = loaded
                    /\ pc \in { "record", "tick" } =>
                           /\ sync.tick_discharged[l] = discharged
                           /\ inter.lanes[l].queue = loaded - discharged
                    /\ pc \in { "arrivals", "record", "tick", "done" } =>
                           inter.lanes[l].queue = sync.balance[l])
    /\ [][pc \notin { "arrivals", "discharge" } =>
             \A i \in DOMAIN intersections :
                \A l \in DOMAIN intersections[i].lanes :
                   intersections'[i].lanes[l].queue = intersections[i].lanes[l].queue]_vars

\* the end of a tick in which a lane that had waited with vehicles received
\* more, was served by the phase just made current and was left with the
\* excess over 5, while a lane of the phase just left kept its arrivals
VehicleConservationWitness ==
    /\ pc = "tick"
    /\ \E i \in DOMAIN intersections :
          LET inter == intersections[i]
          IN  /\ current_phase(inter).elapsed = 0
              /\ \E l \in Range(current_phase(inter).lanes) :
                     /\ sync.tick_start[l] > 0
                     /\ sync.tick_arrivals[l] > 0
                     /\ sync.tick_discharged[l] = 5
                     /\ inter.lanes[l].queue > 0
              /\ \E l \in DOMAIN inter.lanes \ Range(current_phase(inter).lanes) :
                     /\ sync.tick_arrivals[l] > 0
                     /\ sync.tick_discharged[l] = 0
                     /\ inter.lanes[l].queue = sync.tick_start[l] + sync.tick_arrivals[l]

====
